---- MODULE Spec2Model ----
(***************************************************************************)
(* A model of gomultirate (src/limiter.go): a rate limiter made of named   *)
(* fixed windows guarded by one mutex, with the three access operations    *)
(* Try, Wait and WaitEvenly.                                               *)
(*                                                                         *)
(* Time is a discrete wall clock `now` (one unit = one time.Duration       *)
(* unit) that advances at any moment, whatever the callers are doing: a    *)
(* caller may be delayed anywhere, and a timer fires at or after its time. *)
(* Every time.Now() and time.Since() is a reading of its own: the readings *)
(* of one critical section are nondecreasing and at most MaxSkew apart.    *)
(* Go iterates maps in an unspecified order, so every loop over r.limits   *)
(* takes its order as a nondeterministic input.                            *)
(***************************************************************************)
EXTENDS Integers, Sequences, FiniteSets

\* ---------------------------------------------------------------- bounds
MaxTime == 3
MaxInterval == 2
MaxLimit == 2
\* The most the clock advances between the first and the last reading of it
\* in one critical section.
MaxSkew == 1
\* Calls recorded in the call log by the sequential-caller specification.
MaxCalls == MaxLimit + 1

Callers == {"c1", "c2"}
NoOne == "none"
\* Keys a limiter may be built with, and one key no limiter has.
Keys == {"a", "b"}
KeySets == {{"a"}, {"a", "b"}}
CallKeys == Keys \cup {"zz"}
Intervals == 1..MaxInterval
Capacities == 1..MaxLimit

VARIABLES
  now,      \* the wall clock (time.Now())
  limits,   \* rateLimiter.limits: key -> Limit
  mu,       \* rateLimiter.mu: the caller holding it, or NoOne
  pc,       \* each caller's position
  key,      \* WaitEvenly's key argument
  ctxDone,  \* whether the caller's context is done (cancelled or past its deadline)
  timer,    \* the time at which the caller's timer fires
  ret,      \* the value returned by the step just taken, and to whom
  log       \* history: the calls completed so far (sequential-caller specification)

vars == <<now, limits, mu, pc, key, ctxDone, timer, ret, log>>

\* ------------------------------------------------------------ Limit (pure)

\* NewLimit at time t; limit <= 0 panics and is not enumerated.
NewLimit(interval, limit, t) ==
  [count |-> 0, interval |-> interval, lastReset |-> t, limit |-> limit,
   timeBetween |-> interval \div limit]

\* checkLimit comparing the count with <= : one permit too many.
checkLimitLoose(l, t, u) ==
  LET r == IF u - l.lastReset >= l.interval
           THEN [l EXCEPT !.count = 0, !.lastReset = t]
           ELSE l
  IN [lim |-> r, ok |-> r.count <= r.limit]

\* checkLimit resetting only once more than the interval has passed.
checkLimitLate(l, t, u) ==
  LET r == IF u - l.lastReset > l.interval
           THEN [l EXCEPT !.count = 0, !.lastReset = t]
           ELSE l
  IN [lim |-> r, ok |-> r.count < r.limit]

\* checkLimit resetting one time unit before the interval has passed.
checkLimitEarly(l, t, u) ==
  LET r == IF u - l.lastReset >= l.interval - 1
           THEN [l EXCEPT !.count = 0, !.lastReset = t]
           ELSE l
  IN [lim |-> r, ok |-> r.count < r.limit]

\* checkLimit, t being the reading of time.Now() and u >= t the reading of
\* time.Since(l.lastReset): the Limit after the lazy reset (judged at u, and
\* setting lastReset to t), and whether it has room.
checkLimit(l, t, u) ==
  LET r == IF u - l.lastReset >= l.interval
           THEN [l EXCEPT !.count = 0, !.lastReset = t]
           ELSE l
  IN [lim |-> r, ok |-> r.count < r.limit]

\* getRemainingTime returning one time unit less than what remains.
getRemainingTimeShort(l, t) ==
  IF l.count < l.limit
  THEN 0
  ELSE LET remaining == l.interval - (t - l.lastReset)
       IN IF remaining < 0 THEN 0
          ELSE IF remaining > 1 THEN remaining - 1 ELSE remaining

getRemainingTime(l, t) ==
  IF l.count < l.limit
  THEN 0
  ELSE LET remaining == l.interval - (t - l.lastReset)
       IN IF remaining < 0 THEN 0 ELSE remaining

\* ------------------------------------------------------ rateLimiter (pure)

\* The orders in which a range over the map may visit its keys.
Orders(lims) ==
  {s \in [1..Cardinality(DOMAIN lims) -> DOMAIN lims] :
     \A i, j \in DOMAIN s : i # j => s[i] # s[j]}

\* incrementCounts consuming from the first window of the map only.
incrementCountsFirst(lims) ==
  [k \in DOMAIN lims |->
     IF k = "a" THEN [lims[k] EXCEPT !.count = @ + 1] ELSE lims[k]]

incrementCounts(lims) ==
  [k \in DOMAIN lims |-> [lims[k] EXCEPT !.count = @ + 1]]

\* The loop of allowAndIncrement from position i of the order: it stops at the
\* first window without room, keeping the resets checkLimit made on the way.
\* ts holds the clock readings, two for each call of checkLimit.
RECURSIVE checkAll(_, _, _, _)
checkAll(lims, order, i, ts) ==
  IF i > Len(order)
  THEN [limits |-> lims, ok |-> TRUE]
  ELSE LET r == checkLimit(lims[order[i]], ts[2 * i - 1], ts[2 * i])
           lims2 == [lims EXCEPT ![order[i]] = r.lim]
       IN IF ~r.ok
          THEN [limits |-> lims2, ok |-> FALSE]
          ELSE checkAll(lims2, order, i + 1, ts)

\* allowAndIncrement consuming from each window as it passes the check, and
\* leaving what it consumed when a later window refuses.
RECURSIVE eagerAll(_, _, _, _)
eagerAll(lims, order, i, ts) ==
  IF i > Len(order)
  THEN [limits |-> lims, ok |-> TRUE]
  ELSE LET r == checkLimit(lims[order[i]], ts[2 * i - 1], ts[2 * i])
       IN IF ~r.ok
          THEN [limits |-> [lims EXCEPT ![order[i]] = r.lim], ok |-> FALSE]
          ELSE eagerAll([lims EXCEPT ![order[i]] = [r.lim EXCEPT !.count = @ + 1]],
                        order, i + 1, ts)

allowAndIncrementEager(lims, order, ts) == eagerAll(lims, order, 1, ts)

allowAndIncrement(lims, order, ts) ==
  LET c == checkAll(lims, order, 1, ts)
  IN IF c.ok
     THEN [limits |-> incrementCounts(c.limits), ok |-> TRUE]
     ELSE c

\* The loop of getMinWaitTime from position i, minWaitTime so far being acc;
\* ts holds the clock readings, one for each call of getRemainingTime.
RECURSIVE minWaitLoop(_, _, _, _, _)
minWaitLoop(lims, order, i, ts, acc) ==
  IF i > Len(order)
  THEN acc
  ELSE LET waitTime == getRemainingTime(lims[order[i]], ts[i])
       IN minWaitLoop(lims, order, i + 1, ts,
                      IF waitTime > 0 /\ (acc = 0 \/ waitTime < acc)
                      THEN waitTime ELSE acc)

\* getMinWaitTime looking at the first window of the range only.
getMinWaitTimeFirst(lims, order, ts) == getRemainingTime(lims[order[1]], ts[1])

getMinWaitTime(lims, order, ts) == minWaitLoop(lims, order, 1, ts, 0)

\* The readings of the clock a critical section may make: n of them, the
\* first at lo or later, nondecreasing, none later than hi.
RECURSIVE Readings(_, _, _)
Readings(n, lo, hi) ==
  IF n = 0
  THEN {<<>>}
  ELSE UNION {{<<t>> \o s : s \in Readings(n - 1, t, hi)} : t \in lo..hi}

\* The latest reading a critical section begun at time t may make.
Latest(t) == IF t + MaxSkew < MaxTime THEN t + MaxSkew ELSE MaxTime

\* WaitEvenly resetting the window one time unit before its interval has passed.
evenResetEarly(l, t) ==
  IF t - l.lastReset >= l.interval - 1
  THEN [l EXCEPT !.count = 0, !.lastReset = t]
  ELSE l

\* WaitEvenly's own lazy reset of the named window.
evenReset(l, t) ==
  IF t - l.lastReset >= l.interval
  THEN [l EXCEPT !.count = 0, !.lastReset = t]
  ELSE l

\* The slot time computed one slot too early.
nextTimeBehind(l) == l.lastReset + l.timeBetween * (l.count - 1)

\* WaitEvenly: the ideal time of the next slot.
nextTime(l) == l.lastReset + l.timeBetween * l.count

\* WaitEvenly at the limit: the time until the window's reset.
resetWait(l, t) ==
  LET w == l.interval - (t - l.lastReset) IN IF w > 0 THEN w ELSE 0

\* ------------------------------------------------------------ return values
\* ok and wait are Try's two results; err is the error of Wait and WaitEvenly.
NoRet == [to |-> NoOne, op |-> "none", ok |-> FALSE, wait |-> 0, err |-> "nil"]
TryRet(ok, w) == [to |-> NoOne, op |-> "Try", ok |-> ok, wait |-> w, err |-> "nil"]
WaitRet(e) == [to |-> NoOne, op |-> "Wait", ok |-> e = "nil", wait |-> 0, err |-> e]
EvenRet(e) == [to |-> NoOne, op |-> "WaitEvenly", ok |-> e = "nil", wait |-> 0, err |-> e]

\* The mutex kept by the caller that should release it.
UnlockKept(p) == p

\* r.mu.Unlock()
Unlock(p) == NoOne

\* ------------------------------------------------------------------- Init
Init ==
  /\ now = 0
  /\ \E K \in KeySets : \E iv \in [K -> Intervals] : \E lm \in [K -> Capacities] :
       \* key names carry no meaning: of two windows, "a" is one with the
       \* shorter (or the same) interval
       /\ \A j, k \in K : (j = "a") => iv[j] <= iv[k]
       /\ limits = [k \in K |-> NewLimit(iv[k], lm[k], 0)]
  /\ mu = NoOne
  /\ pc = [p \in Callers |-> "idle"]
  /\ key = [p \in Callers |-> "a"]
  /\ ctxDone = [p \in Callers |-> FALSE]
  /\ timer = [p \in Callers |-> 0]
  /\ ret = NoRet
  /\ log = <<>>

\* A caller returns: its position, context and timer are dropped.
Return(p, r) ==
  /\ pc' = [pc EXCEPT ![p] = "idle"]
  /\ ret' = [r EXCEPT !.to = p]
  /\ ctxDone' = [ctxDone EXCEPT ![p] = FALSE]
  /\ timer' = [timer EXCEPT ![p] = 0]
  /\ key' = [key EXCEPT ![p] = "a"]

\* A caller enters a call and takes the mutex.  r.mu.Lock() is the first
\* statement of every call, so a call begins when the mutex is free.
Enter(p, where, k, done) ==
  /\ pc[p] = "idle"
  /\ mu = NoOne
  /\ mu' = p
  /\ pc' = [pc EXCEPT ![p] = where]
  /\ key' = [key EXCEPT ![p] = k]
  /\ ctxDone' = [ctxDone EXCEPT ![p] = done]
  /\ ret' = NoRet
  /\ UNCHANGED <<now, limits, timer>>

\* ---------------------------------------------------------------- Try
TryCall(p) == Enter(p, "Try", "a", FALSE)

TryBody(p) ==
  /\ pc[p] = "Try"
  /\ mu = p
  /\ \E order \in Orders(limits) :
     \E ts \in Readings(2 * Len(order), now, Latest(now)) :
       LET n == Len(order)
           a == allowAndIncrement(limits, order, ts)
       IN /\ limits' = a.limits
          /\ IF a.ok
             THEN /\ Return(p, TryRet(TRUE, 0))
                  /\ now' = ts[2 * n]
             ELSE \E order2 \in Orders(limits) :
                  \E rs \in Readings(n, ts[2 * n], Latest(now)) :
                    /\ Return(p, TryRet(FALSE, getMinWaitTime(a.limits, order2, rs)))
                    /\ now' = rs[n]
  /\ mu' = Unlock(p)

\* ---------------------------------------------------------------- Wait
WaitCall(p, done) == Enter(p, "Wait", "a", done)

\* One attempt of Wait under the mutex: grant and return, or arm the timer with
\* getMinWaitTime and go to the select.
WaitAttempt(p) ==
  /\ mu = p
  /\ \E order \in Orders(limits) :
     \E ts \in Readings(2 * Len(order), now, Latest(now)) :
       LET n == Len(order)
           a == allowAndIncrement(limits, order, ts)
       IN /\ limits' = a.limits
          /\ IF a.ok
             THEN /\ Return(p, WaitRet("nil"))
                  /\ now' = ts[2 * n]
             ELSE \E order2 \in Orders(limits) :
                  \E rs \in Readings(n, ts[2 * n], Latest(now)) :
                    /\ pc' = [pc EXCEPT ![p] = "WaitSelect"]
                    /\ timer' = [timer EXCEPT ![p] =
                                   rs[n] + getMinWaitTime(a.limits, order2, rs)]
                    /\ now' = rs[n]
                    /\ ret' = NoRet
                    /\ UNCHANGED <<key, ctxDone>>
  /\ mu' = Unlock(p)

\* Wait looking at the context before its first attempt.
WaitBodyCtxFirst(p) ==
  /\ pc[p] = "Wait"
  /\ IF ctxDone[p]
     THEN /\ mu = p
          /\ Return(p, WaitRet("canceled"))
          /\ mu' = Unlock(p)
          /\ UNCHANGED <<now, limits>>
     ELSE WaitAttempt(p)

\* The first attempt.
WaitBody(p) == pc[p] = "Wait" /\ WaitAttempt(p)

\* case <-timer.C: the timer has fired and the caller takes the mutex again.
WaitTimer(p) ==
  /\ pc[p] = "WaitSelect"
  /\ now >= timer[p]
  /\ mu = NoOne
  /\ mu' = p
  /\ pc' = [pc EXCEPT ![p] = "WaitRetry"]
  /\ ret' = NoRet
  /\ UNCHANGED <<now, limits, key, ctxDone, timer>>

\* The attempt after the timer.
WaitRetry(p) == pc[p] = "WaitRetry" /\ WaitAttempt(p)

\* The cancellation swallowed: Wait returns nil.
WaitDoneNil(p) ==
  /\ pc[p] = "WaitSelect"
  /\ ctxDone[p]
  /\ Return(p, WaitRet("nil"))
  /\ UNCHANGED <<now, limits, mu>>

\* case <-ctx.Done(): return ctx.Err().
WaitDone(p) ==
  /\ pc[p] = "WaitSelect"
  /\ ctxDone[p]
  /\ Return(p, WaitRet("canceled"))
  /\ UNCHANGED <<now, limits, mu>>

\* ---------------------------------------------------------- WaitEvenly
WaitEvenlyCall(p, k, done) == Enter(p, "WaitEvenly", k, done)

\* The reservation taking two permits.
reserveTwo(l) == [l EXCEPT !.count = @ + 2]

\* The slot handed out without being reserved.
reserveNone(l) == l

\* lim.count++ : the slot is reserved before the wait.
reserve(l) == [l EXCEPT !.count = @ + 1]

\* The reserved slot given back on cancellation.
slotCancelRollback(lims, k) ==
  [lims EXCEPT ![k] = [@ EXCEPT !.count = IF @ > 0 THEN @ - 1 ELSE 0]]

\* What the cancelled wait for a reserved slot leaves of the windows: the code
\* returns ctx.Err() and touches nothing.
slotCancel(lims, k) == lims

\* The unknown key reported only to a caller whose context is live.
EvenMissingCtx(p) ==
  /\ Return(p, EvenRet(IF ctxDone[p] THEN "canceled" ELSE "nokey"))
  /\ UNCHANGED limits

\* if !exists: unlock and return the error.
EvenMissing(p) ==
  /\ Return(p, EvenRet("nokey"))
  /\ UNCHANGED limits

\* WaitEvenly taking its permit from every window, as Try and Wait do.
WaitEvenlyBodyAll(p) ==
  /\ pc[p] = "WaitEvenly"
  /\ mu = p
  /\ IF key[p] \notin DOMAIN limits
     THEN EvenMissing(p)
     ELSE LET lim == evenReset(limits[key[p]], now)
          IN IF lim.count < lim.limit
             THEN LET waitTime == nextTime(lim) - now
                  IN /\ limits' = incrementCounts([limits EXCEPT ![key[p]] = lim])
                     /\ IF waitTime > 0
                        THEN /\ pc' = [pc EXCEPT ![p] = "EvenSlotSelect"]
                             /\ timer' = [timer EXCEPT ![p] = now + waitTime]
                             /\ ret' = NoRet
                             /\ UNCHANGED <<key, ctxDone>>
                        ELSE Return(p, EvenRet("nil"))
             ELSE /\ limits' = [limits EXCEPT ![key[p]] = lim]
                  /\ pc' = [pc EXCEPT ![p] = "EvenResetSelect"]
                  /\ timer' = [timer EXCEPT ![p] = now + resetWait(lim, now)]
                  /\ ret' = NoRet
                  /\ UNCHANGED <<key, ctxDone>>
  /\ mu' = Unlock(p)
  /\ UNCHANGED now

\* One pass of WaitEvenly's loop under the mutex.
WaitEvenlyBody(p) ==
  /\ pc[p] = "WaitEvenly"
  /\ mu = p
  /\ IF key[p] \notin DOMAIN limits
     THEN EvenMissing(p)
     ELSE LET lim == evenReset(limits[key[p]], now)
          IN IF lim.count < lim.limit
             THEN LET waitTime == nextTime(lim) - now
                  IN /\ limits' = [limits EXCEPT ![key[p]] = reserve(lim)]
                     /\ IF waitTime > 0
                        THEN /\ pc' = [pc EXCEPT ![p] = "EvenSlotSelect"]
                             /\ timer' = [timer EXCEPT ![p] = now + waitTime]
                             /\ ret' = NoRet
                             /\ UNCHANGED <<key, ctxDone>>
                        ELSE Return(p, EvenRet("nil"))
             ELSE /\ limits' = [limits EXCEPT ![key[p]] = lim]
                  /\ pc' = [pc EXCEPT ![p] = "EvenResetSelect"]
                  /\ timer' = [timer EXCEPT ![p] = now + resetWait(lim, now)]
                  /\ ret' = NoRet
                  /\ UNCHANGED <<key, ctxDone>>
  /\ mu' = Unlock(p)
  /\ UNCHANGED now

\* The slot's timer firing one time unit early.
WaitEvenlySlotTimerEarly(p) ==
  /\ pc[p] = "EvenSlotSelect"
  /\ now >= timer[p] - 1
  /\ Return(p, EvenRet("nil"))
  /\ UNCHANGED <<now, limits, mu>>

\* The reserved slot's time has come.
WaitEvenlySlotTimer(p) ==
  /\ pc[p] = "EvenSlotSelect"
  /\ now >= timer[p]
  /\ Return(p, EvenRet("nil"))
  /\ UNCHANGED <<now, limits, mu>>

\* Cancelled while waiting for the reserved slot.
WaitEvenlySlotDone(p) ==
  /\ pc[p] = "EvenSlotSelect"
  /\ ctxDone[p]
  /\ limits' = slotCancel(limits, key[p])
  /\ Return(p, EvenRet("canceled"))
  /\ UNCHANGED <<now, mu>>

\* The window's reset time has come: loop, taking the mutex again.
WaitEvenlyResetTimer(p) ==
  /\ pc[p] = "EvenResetSelect"
  /\ now >= timer[p]
  /\ mu = NoOne
  /\ mu' = p
  /\ pc' = [pc EXCEPT ![p] = "WaitEvenly"]
  /\ timer' = [timer EXCEPT ![p] = 0]
  /\ ret' = NoRet
  /\ UNCHANGED <<now, limits, key, ctxDone>>

\* Cancelled while waiting for the reset.
WaitEvenlyResetDone(p) ==
  /\ pc[p] = "EvenResetSelect"
  /\ ctxDone[p]
  /\ Return(p, EvenRet("canceled"))
  /\ UNCHANGED <<now, limits, mu>>

\* ------------------------------------------------------------ environment
Selects == {"WaitSelect", "EvenSlotSelect", "EvenResetSelect"}

\* The caller's context is cancelled, or its deadline passes, while it is suspended.
Cancel(p) ==
  /\ pc[p] \in Selects
  /\ ~ctxDone[p]
  /\ ctxDone' = [ctxDone EXCEPT ![p] = TRUE]
  /\ ret' = NoRet
  /\ UNCHANGED <<now, limits, mu, pc, key, timer>>

\* A suspended caller none of whose select cases is ready.
Asleep(p) == pc[p] \in Selects /\ now < timer[p] /\ ~ctxDone[p]

\* The wall clock advances, whatever the callers are doing.
Tick ==
  /\ now < MaxTime
  /\ now' = now + 1
  /\ ret' = NoRet
  /\ UNCHANGED <<limits, mu, pc, key, ctxDone, timer>>

\* ------------------------------------------------------ specifications

\* Concurrent callers.
Next ==
  \/ \E p \in Callers : TryCall(p) /\ UNCHANGED log
  \/ \E p \in Callers : TryBody(p) /\ UNCHANGED log
  \/ \E p \in Callers : \E d \in BOOLEAN : WaitCall(p, d) /\ UNCHANGED log
  \/ \E p \in Callers : WaitBody(p) /\ UNCHANGED log
  \/ \E p \in Callers : WaitTimer(p) /\ UNCHANGED log
  \/ \E p \in Callers : WaitRetry(p) /\ UNCHANGED log
  \/ \E p \in Callers : WaitDone(p) /\ UNCHANGED log
  \/ \E p \in Callers : \E k \in CallKeys : \E d \in BOOLEAN :
       WaitEvenlyCall(p, k, d) /\ UNCHANGED log
  \/ \E p \in Callers : WaitEvenlyBody(p) /\ UNCHANGED log
  \/ \E p \in Callers : WaitEvenlySlotTimer(p) /\ UNCHANGED log
  \/ \E p \in Callers : WaitEvenlySlotDone(p) /\ UNCHANGED log
  \/ \E p \in Callers : WaitEvenlyResetTimer(p) /\ UNCHANGED log
  \/ \E p \in Callers : WaitEvenlyResetDone(p) /\ UNCHANGED log
  \/ \E p \in Callers : Cancel(p) /\ UNCHANGED log
  \/ Tick /\ UNCHANGED log

Spec == Init /\ [][Next]_vars

\* One caller making one call after the other, each call recorded in the log
\* with the windows as it found and as it left them.
Solo == "c1"

Called(p) == pc[p] = "idle" /\ pc'[p] # "idle"
Returned(p) == pc[p] # "idle" /\ pc'[p] = "idle"

LogStep(p) ==
  log' = IF Called(p)
         THEN Append(log, [op |-> pc'[p], key |-> key'[p], done |-> ctxDone'[p],
                           start |-> now, before |-> limits, open |-> TRUE,
                           at |-> now, after |-> limits, cancelled |-> FALSE,
                           doneAt |-> IF ctxDone'[p] THEN now ELSE -1,
                           ok |-> FALSE, wait |-> 0, err |-> "nil"])
         ELSE IF ~ctxDone[p] /\ ctxDone'[p]
         THEN [log EXCEPT ![Len(log)] = [@ EXCEPT !.doneAt = now]]
         ELSE IF Returned(p)
         THEN [log EXCEPT ![Len(log)] =
                 [@ EXCEPT !.open = FALSE, !.at = now', !.after = limits',
                           !.cancelled = ctxDone[p],
                           !.ok = ret'.ok, !.wait = ret'.wait, !.err = ret'.err]]
         ELSE log

\* The caller may make another call to op: the log has room, and it calls one
\* operation throughout, as each of the tests does.
MoreCalls(op) ==
  /\ Len(log) < MaxCalls
  /\ IF Len(log) = 0 THEN TRUE ELSE log[1].op = op

NextSeq ==
  \/ MoreCalls("Try") /\ TryCall(Solo) /\ LogStep(Solo)
  \/ TryBody(Solo) /\ LogStep(Solo)
  \/ \E d \in BOOLEAN : MoreCalls("Wait") /\ WaitCall(Solo, d) /\ LogStep(Solo)
  \/ WaitBody(Solo) /\ LogStep(Solo)
  \/ WaitTimer(Solo) /\ LogStep(Solo)
  \/ WaitRetry(Solo) /\ LogStep(Solo)
  \/ WaitDone(Solo) /\ LogStep(Solo)
  \/ pc[Solo] = "WaitSelect" /\ Cancel(Solo) /\ LogStep(Solo)
  \/ \E k \in DOMAIN limits :
       MoreCalls("WaitEvenly") /\ WaitEvenlyCall(Solo, k, FALSE) /\ LogStep(Solo)
  \/ WaitEvenlyBody(Solo) /\ LogStep(Solo)
  \/ WaitEvenlySlotTimer(Solo) /\ LogStep(Solo)
  \/ WaitEvenlyResetTimer(Solo) /\ LogStep(Solo)
  \/ Tick /\ LogStep(Solo)

SpecSeq == Init /\ [][NextSeq]_vars

\* ================================================================ claims

\* A window as the code sees it at time t.
Due(l, t) == t - l.lastReset >= l.interval
Saturated(l, t) == l.count >= l.limit /\ ~Due(l, t)
Available(l, t) == l.count < l.limit \/ Due(l, t)
\* The window after the lazy reset the code makes when it is due.
LazyReset(l, t) == [l EXCEPT !.count = 0, !.lastReset = t]
\* In the step, window k is lazily reset and nothing more: the step ends at a
\* time at which k is due, and k's lastReset is a clock reading of the step.
ResetIn(k) ==
  /\ Due(limits[k], now')
  /\ \E t \in now..now' : limits'[k] = LazyReset(limits[k], t)

\* No count is larger after the step.
NoIncrement == \A k \in DOMAIN limits : limits'[k].count <= limits[k].count

\* The step is caller p's allowAndIncrement, and it is denied.
DeniedStep(p) ==
  \/ pc[p] = "Try" /\ ret'.to = p /\ ret'.op = "Try" /\ ~ret'.ok
  \/ pc[p] \in {"Wait", "WaitRetry"} /\ pc'[p] = "WaitSelect"

\* The log's entries of finished calls to op.
Done(op) == {i \in 1..Len(log) : log[i].op = op /\ ~log[i].open}

\* ---------------------------------------------------------------- C1
\* C1 as stated: a denied allowAndIncrement (in Try or Wait) leaves the count
\* of every window as it was.
C1_DeniedLeavesCounts ==
  [][\A p \in Callers : DeniedStep(p) =>
       \A k \in DOMAIN limits : limits'[k].count = limits[k].count]_vars

\* C1 amended: a denied allowAndIncrement increments no window's count: every
\* window is left as it was, or, its interval having elapsed, it has been
\* lazily reset (count 0, lastReset a clock reading of the call).
C1_DeniedConsumesNothing ==
  [][\A p \in Callers : DeniedStep(p) =>
       \A k \in DOMAIN limits : limits'[k] = limits[k] \/ ResetIn(k)]_vars

\* A Try has just been denied by a saturated window and another window, which
\* held permits, was reset by it.
C1_Witness ==
  /\ ret.op = "Try" /\ ~ret.ok /\ now > 0
  /\ \E j, k \in DOMAIN limits :
       /\ Saturated(limits[j], now)
       /\ limits[k].lastReset = now /\ limits[k].count = 0

\* ---------------------------------------------------------------- C2
\* Entries i..j of the log are finished Try calls on a limiter with the single
\* window "a", the first finding count 0, each of them returning before the
\* window is due for a reset.
TryRun(i, j) ==
  /\ DOMAIN limits = {"a"}
  /\ log[i].before["a"].count = 0
  /\ \A m \in i..j :
       /\ log[m].op = "Try" /\ ~log[m].open
       /\ ~Due(log[m].before["a"], log[m].at)

\* C2: with a single window of capacity C, of the Try calls made from count 0
\* while no reset is triggered, exactly the first C return true: the n-th call
\* of the run returns true iff n <= C.
C2_Capacity ==
  \A i \in 1..Len(log) : \A j \in i..Len(log) :
    TryRun(i, j) => (log[j].ok <=> (j - i + 1 <= limits["a"].limit))

\* A run of C+1 calls with C >= 2: C grants and then a denial.
C2_Witness ==
  /\ Len(log) >= 3
  /\ TryRun(1, Len(log))
  /\ limits["a"].limit = Len(log) - 1
  /\ ~log[Len(log)].ok /\ log[Len(log) - 1].ok

\* ---------------------------------------------------------------- C3
\* C3 as stated: a Try made when window k is at capacity and at least its
\* interval has passed since its lastReset returns (true, 0) and leaves window
\* k with count 1 and lastReset the time of the Try (a clock reading made
\* between its call and its return).
C3_ResetAlwaysGrants ==
  \A i \in Done("Try") : \A k \in DOMAIN limits :
    LET e == log[i] IN
      ( /\ e.before[k].count >= e.before[k].limit
        /\ Due(e.before[k], e.start) )
      => ( /\ e.ok /\ e.wait = 0
           /\ e.after[k].count = 1
           /\ e.after[k].lastReset \in e.start..e.at )

\* C3 amended: the same, when no other window of the limiter is saturated at
\* the time of the Try (as in every limiter with a single window).
C3_Reset ==
  \A i \in Done("Try") : \A k \in DOMAIN limits :
    LET e == log[i] IN
      ( /\ e.before[k].count >= e.before[k].limit
        /\ Due(e.before[k], e.start)
        /\ \A j \in DOMAIN limits \ {k} : Available(e.before[j], e.start) )
      => ( /\ e.ok /\ e.wait = 0
           /\ e.after[k].count = 1
           /\ e.after[k].lastReset \in e.start..e.at )

\* The test's scenario: a Try denied by the full window, then a Try granted
\* once the interval has passed.
C3_Witness ==
  \E i \in Done("Try") :
    /\ i > 1 /\ ~log[i - 1].ok
    /\ DOMAIN limits = {"a"}
    /\ log[i].before["a"].count = log[i].before["a"].limit
    /\ Due(log[i].before["a"], log[i].start)
    /\ log[i].ok /\ log[i].after["a"].count = 1

\* ---------------------------------------------------------------- C4
\* C4: when Try returns (false, d) and the caller's next call is a Try made d
\* later, nothing else having touched the limiter, that Try is granted.
C4_RetryAfterSuffices ==
  \A i \in Done("Try") :
    ( /\ i > 1
      /\ ~log[i - 1].ok
      /\ log[i].start = log[i - 1].at + log[i - 1].wait )
    => log[i].ok

\* ---------------------------------------------------------------- C5
\* Every window had room (after its lazy reset) when the call of entry e began.
AllAvailable(e) == \A k \in DOMAIN e.before : Available(e.before[k], e.start)

\* C5 as stated: a Wait called with a token already cancelled returns the
\* cancellation error and increments no count, whatever the windows' state.
C5_CancelledWaitNeverGrants ==
  \A i \in Done("Wait") :
    log[i].done =>
      /\ log[i].err = "canceled"
      /\ \A k \in DOMAIN limits : log[i].after[k].count <= log[i].before[k].count

\* The call in progress (the log's last entry) was made with a token already
\* cancelled.
CalledDone == Len(log) > 0 /\ log[Len(log)].done

\* C5 amended: Wait returns an error only if its token is cancelled, and a
\* Wait that returns the cancellation error has incremented no count.  Called
\* with a token already cancelled, it returns success with a permit taken from
\* every window when every window has room; when some window is saturated
\* throughout its check it is denied, takes nothing and goes to its select,
\* and from the select it returns the cancellation error, leaving every
\* window as it is, whenever it runs before the timer it armed fires (run at
\* or after that time it may take the timer's case and retry).
C5_CancelledWait ==
  /\ [](\A i \in Done("Wait") :
         LET e == log[i] IN
           /\ e.err # "nil" => (e.err = "canceled" /\ e.cancelled)
           /\ e.err = "canceled" =>
                \A k \in DOMAIN limits : e.after[k].count <= e.before[k].count
           /\ (e.done /\ AllAvailable(e)) =>
                /\ e.err = "nil"
                /\ \A k \in DOMAIN limits :
                     \/ e.after[k].count = e.before[k].count + 1
                     \/ Due(e.before[k], e.at) /\ e.after[k].count = 1)
  /\ [][(CalledDone /\ pc'[Solo] # pc[Solo]) =>
          /\ (pc[Solo] = "Wait" /\ \E k \in DOMAIN limits : Saturated(limits[k], now'))
               => (pc'[Solo] = "WaitSelect" /\ NoIncrement)
          /\ (pc[Solo] = "WaitSelect" /\ now < timer[Solo])
               => /\ pc'[Solo] = "idle"
                  /\ ret' = [WaitRet("canceled") EXCEPT !.to = Solo]
                  /\ limits' = limits]_vars

\* Two Waits with a cancelled token: one granted, one refused with the error.
C5_Witness ==
  \E i, j \in Done("Wait") :
    /\ log[i].done /\ log[i].err = "nil"
    /\ log[j].done /\ log[j].err = "canceled"

\* ---------------------------------------------------------------- C6
\* Some window is saturated and not yet due for its reset.
SomeSaturated == \E k \in DOMAIN limits : Saturated(limits[k], now)

\* The reset times of the windows that are saturated when the call of entry e
\* begins.
ResetTimes(e) ==
  {e.before[k].lastReset + e.before[k].interval :
     k \in {j \in DOMAIN e.before : Saturated(e.before[j], e.start)}}

\* Entry e is a finished Wait that was suspended on a saturated window, its
\* token cancelled while it was suspended.
CancelledSuspended(e) ==
  /\ e.op = "Wait" /\ ~e.open
  /\ ~e.done /\ e.doneAt >= 0
  /\ ResetTimes(e) # {}

\* C6 as stated: a Wait suspended on a saturated window whose token is
\* cancelled before that window's reset time returns the cancellation error,
\* never success, and has incremented no count.
C6_CancelledNeverGranted ==
  \A i \in Done("Wait") :
    LET e == log[i] IN
      (CancelledSuspended(e) /\ \E t \in ResetTimes(e) : e.doneAt < t)
        => /\ e.err = "canceled"
           /\ \A k \in DOMAIN limits : e.after[k].count <= e.before[k].count

\* C6 amended: a Wait suspended in its select whose token is cancelled while
\* it is suspended returns the cancellation error, leaving every window as it
\* is, whenever it runs before the timer it armed (at its first or at a later
\* denial) fires; it goes on to retry, and so can return success, only when
\* it runs at or after that time; and whenever it returns the cancellation
\* error it has incremented no count (a window it visited may have been
\* lazily reset to count 0).
C6_CancelledWhileWaiting ==
  /\ [](\A i \in Done("Wait") :
         LET e == log[i] IN
           (CancelledSuspended(e) /\ e.err = "canceled") =>
             \A k \in DOMAIN limits :
               e.after[k] = e.before[k] \/ e.after[k].count = 0)
  /\ [][(pc[Solo] = "WaitSelect" /\ ctxDone[Solo] /\ ~CalledDone
          /\ pc'[Solo] # pc[Solo]) =>
          IF now < timer[Solo]
          THEN /\ pc'[Solo] = "idle"
               /\ ret' = [WaitRet("canceled") EXCEPT !.to = Solo]
               /\ limits' = limits
          ELSE \/ pc'[Solo] = "WaitRetry" /\ limits' = limits
               \/ /\ pc'[Solo] = "idle"
                  /\ ret' = [WaitRet("canceled") EXCEPT !.to = Solo]
                  /\ limits' = limits]_vars

\* A Wait on two saturated windows has slept until the first one's reset,
\* retried (resetting that window) and been denied by the other, has then been
\* cancelled and has returned the cancellation error before the other
\* window's reset time.
C6_Witness ==
  \E i \in Done("Wait") :
    LET e == log[i] IN
      /\ CancelledSuspended(e)
      /\ e.doneAt > e.start
      /\ e.err = "canceled"
      /\ \E j, k \in DOMAIN limits :
           /\ e.before[j].count > 0 /\ e.after[j].count = 0
           /\ Saturated(e.after[k], e.at)

\* ---------------------------------------------------------------- C7
\* C7 as stated: with a single window of capacity 1 and interval T, two
\* consecutive successful Waits (the second called as the first returns, so
\* while the window is saturated) take at least T from the start of the first
\* to the return of the second.
C7_TwoWaitsTakeInterval ==
  \A i \in Done("Wait") :
    ( /\ DOMAIN limits = {"a"} /\ limits["a"].limit = 1
      /\ i > 1 /\ log[i - 1].ok /\ log[i].ok
      /\ log[i].start = log[i - 1].at )
    => log[i].at - log[i - 1].start >= limits["a"].interval

\* C7 amended: a Wait called while a window is at capacity returns success no
\* earlier than that window's lastReset plus its interval.
C7_WaitNotBeforeReset ==
  \A i \in Done("Wait") : \A k \in DOMAIN limits :
    LET e == log[i] IN
      (e.ok /\ e.before[k].count >= e.before[k].limit)
        => e.at >= e.before[k].lastReset + e.before[k].interval

\* The test's scenario: capacity 1, a Wait granted at once and a second Wait
\* that was suspended until the reset.
C7_Witness ==
  \E i \in Done("Wait") :
    /\ DOMAIN limits = {"a"} /\ limits["a"].limit = 1
    /\ i > 1 /\ log[i - 1].ok /\ log[i].ok
    /\ Saturated(log[i].before["a"], log[i].start)
    /\ log[i].at > log[i].start
    /\ log[i].at = log[i].before["a"].lastReset + limits["a"].interval

\* ---------------------------------------------------------------- C8
\* Entries i..j of the log are successful WaitEvenly calls on window k, each
\* made as the one before returns, the first reserving slot 0.
EvenRun(i, j, k) ==
  /\ \A m \in i..j :
       /\ log[m].op = "WaitEvenly" /\ ~log[m].open
       /\ log[m].key = k /\ log[m].ok
  /\ \A m \in (i + 1)..j : log[m].start = log[m - 1].at
  /\ log[i].after[k].count = 1
  /\ j - i + 1 <= limits[k].limit

\* C8 as stated: in N consecutive WaitEvenly calls on a window of capacity N
\* and interval I, each call after the first returns I/N after the one before.
C8_EvenSpacing ==
  \A k \in DOMAIN limits : \A i \in 1..Len(log) : \A j \in (i + 1)..Len(log) :
    EvenRun(i, j, k) => log[j].at - log[j - 1].at = limits[k].interval \div limits[k].limit

\* C8 amended: the n-th of the consecutive calls returns no earlier than
\* (n-1) * (I/N) after the lastReset of the interval in which the first call
\* took slot 0 (the instant the window was created or lazily reset).
C8_EvenSpacingFromWindowStart ==
  \A k \in DOMAIN limits : \A i \in 1..Len(log) : \A j \in i..Len(log) :
    EvenRun(i, j, k)
      => log[j].at >= log[i].after[k].lastReset
                        + (j - i) * (limits[k].interval \div limits[k].limit)

\* N >= 2 calls exhausting the window after a reset, the last returning
\* exactly (N-1) * (I/N) after the reset, I/N being positive.
C8_Witness ==
  \E k \in DOMAIN limits :
    /\ Len(log) >= 2 /\ limits[k].limit = Len(log)
    /\ EvenRun(1, Len(log), k)
    /\ log[1].start = log[1].after[k].lastReset /\ log[1].start > 0
    /\ limits[k].interval \div limits[k].limit > 0
    /\ log[Len(log)].at = log[1].start
         + (Len(log) - 1) * (limits[k].interval \div limits[k].limit)

\* ---------------------------------------------------------------- C9
\* C9: WaitEvenly with a key the limiter does not have returns the unknown-key
\* error without suspending (its one step under the mutex is its return),
\* whether or not its token is cancelled and whatever the windows hold, and
\* changes no window.
C9_UnknownKey ==
  [][\A p \in Callers :
       (pc[p] = "WaitEvenly" /\ key[p] \notin DOMAIN limits) =>
         /\ limits' = limits
         /\ \/ pc'[p] = "WaitEvenly"
            \/ /\ pc'[p] = "idle"
               /\ ret' = [EvenRet("nokey") EXCEPT !.to = p]]_vars

\* The error has just been returned while a window is saturated and another
\* caller is suspended.
C9_Witness ==
  /\ ret.op = "WaitEvenly" /\ ret.err = "nokey" /\ ret.to \in Callers
  /\ SomeSaturated
  /\ \E q \in Callers : pc[q] \in Selects

\* ---------------------------------------------------------------- C10
\* C10 as stated: a WaitEvenly call that has reserved a slot and is cancelled
\* while it waits for the slot's time returns the cancellation error.
C10_CancelledReturnsError ==
  \A i \in 1..Len(log) :
    (log[i].doneAt >= 0 /\ log[i].doneAt < log[i].slot /\ log[i].res # "waiting")
      => log[i].res = "canceled"

\* C10 amended: the pass of WaitEvenly that reserves a slot increments the
\* window's count, and the return of a call that waited for its slot leaves
\* every window as it is, so the increment is kept whatever the call returns:
\* the cancellation error when its token is cancelled and it resumes before
\* the slot's time, and the cancellation error (only if cancelled) or success
\* when it resumes at the slot's time or later.
C10_NoRollback ==
  [][\A p \in Callers :
       /\ (pc[p] = "WaitEvenly" /\ pc'[p] = "EvenSlotSelect") =>
            limits'[key[p]].count =
              (IF Due(limits[key[p]], now) THEN 0 ELSE limits[key[p]].count) + 1
       /\ (pc[p] = "EvenSlotSelect" /\ pc'[p] = "idle") =>
            /\ limits' = limits
            /\ ret'.to = p /\ ret'.op = "WaitEvenly"
            /\ ret'.err = "canceled" => ctxDone[p]
            /\ (ctxDone[p] /\ now < timer[p]) => ret'.err = "canceled"
            /\ ~ctxDone[p] => (ret'.err = "nil" /\ now >= timer[p])]_vars

\* A caller holds the last slot of a window of capacity 2 or more, is still
\* waiting for the slot's time, and its token has been cancelled.
C10_Witness ==
  \E p \in Callers :
    /\ pc[p] = "EvenSlotSelect" /\ ctxDone[p] /\ now < timer[p]
    /\ limits[key[p]].limit > 1
    /\ limits[key[p]].count = limits[key[p]].limit

\* ------------------------------------------------- concurrent WaitEvenly
\* Concurrent callers of WaitEvenly on one window, the log recording every reservation in
\* the order in which the callers held the mutex: the caller, the key, the
\* window's count (the slot index) and lastReset as the code found them after
\* its reset, the nextTime it computed, when its token was cancelled while it
\* waited for the slot (-1: not), and how and when the call returned.
Reserving(p) ==
  /\ pc[p] = "WaitEvenly"
  /\ key[p] \in DOMAIN limits
  /\ pc'[p] \in {"EvenSlotSelect", "idle"}

LogEven(p) ==
  log' = IF Reserving(p)
         THEN LET lim == evenReset(limits[key[p]], now)
              IN Append(log, [who |-> p, key |-> key[p], idx |-> lim.count,
                              start |-> lim.lastReset, slot |-> nextTime(lim),
                              res |-> IF pc'[p] = "idle" THEN ret'.err ELSE "waiting",
                              at |-> now, doneAt |-> -1])
         ELSE IF pc[p] = "EvenSlotSelect" /\ ~ctxDone[p] /\ ctxDone'[p]
         THEN [i \in DOMAIN log |->
                 IF log[i].who = p /\ log[i].res = "waiting"
                 THEN [log[i] EXCEPT !.doneAt = now]
                 ELSE log[i]]
         ELSE IF pc[p] = "EvenSlotSelect" /\ pc'[p] = "idle"
         THEN [i \in DOMAIN log |->
                 IF log[i].who = p /\ log[i].res = "waiting"
                 THEN [log[i] EXCEPT !.res = ret'.err, !.at = now]
                 ELSE log[i]]
         ELSE log

\* The window the concurrent callers pace against.
EvenKey == "a"

\* Another call may be made: the reservations recorded and the calls still to
\* reserve are fewer than MaxCalls.
MoreEven ==
  Len(log) + Cardinality({p \in Callers : pc[p] \in {"WaitEvenly", "EvenResetSelect"}})
    < MaxCalls

NextEven ==
  \/ \E p \in Callers : \E d \in BOOLEAN :
       MoreEven /\ WaitEvenlyCall(p, EvenKey, d) /\ LogEven(p)
  \/ \E p \in Callers : WaitEvenlyBody(p) /\ LogEven(p)
  \/ \E p \in Callers : WaitEvenlySlotTimer(p) /\ LogEven(p)
  \/ \E p \in Callers : WaitEvenlySlotDone(p) /\ LogEven(p)
  \/ \E p \in Callers : WaitEvenlyResetTimer(p) /\ LogEven(p)
  \/ \E p \in Callers : WaitEvenlyResetDone(p) /\ LogEven(p)
  \/ \E p \in Callers : Cancel(p) /\ LogEven(p)
  \/ Tick /\ UNCHANGED log

SpecEven == Init /\ [][NextEven]_vars

\* ------------------------------------------------------ a sole caller's Wait
\* One caller making any calls one after the other; the log holds the sleeps
\* (the durations given to the timer) of its latest Wait.
LogWait(p) ==
  log' = IF Called(p) /\ pc'[p] = "Wait"
         THEN <<>>
         ELSE IF pc[p] \in {"Wait", "WaitRetry"} /\ pc'[p] = "WaitSelect"
         THEN Append(log, timer'[p] - now')
         ELSE log

\* The clock of the model stops at MaxTime: a Wait is called only while every
\* timer it can arm is within it (a timer is armed for a wait computed from a
\* reading up to MaxSkew older than the clock, so it is set at most MaxSkew
\* past a window's reset time).
WithinClock ==
  \A k \in DOMAIN limits :
    limits[k].lastReset + limits[k].interval + MaxSkew <= MaxTime

\* The steps of the caller inside Wait.
WaitSteps ==
  \/ WaitBody(Solo) /\ LogWait(Solo)
  \/ WaitTimer(Solo) /\ LogWait(Solo)
  \/ WaitRetry(Solo) /\ LogWait(Solo)

NextWait ==
  \/ TryCall(Solo) /\ LogWait(Solo)
  \/ TryBody(Solo) /\ LogWait(Solo)
  \/ WithinClock /\ WaitCall(Solo, FALSE) /\ LogWait(Solo)
  \/ WaitSteps
  \/ \E k \in DOMAIN limits : WaitEvenlyCall(Solo, k, FALSE) /\ LogWait(Solo)
  \/ WaitEvenlyBody(Solo) /\ LogWait(Solo)
  \/ WaitEvenlySlotTimer(Solo) /\ LogWait(Solo)
  \/ WaitEvenlyResetTimer(Solo) /\ LogWait(Solo)
  \/ Tick /\ LogWait(Solo)

\* Time advances, and a caller that can run does run.
SpecWait ==
  /\ Init
  /\ [][NextWait]_vars
  /\ WF_vars(Tick /\ LogWait(Solo))
  /\ WF_vars(WaitSteps)

\* ---------------------------------------------------------------- C11
\* The largest of the windows' remaining times at time t (0 when none is
\* positive).
RECURSIVE MaxOf(_)
MaxOf(S) ==
  IF S = {} THEN 0
  ELSE LET x == CHOOSE y \in S : TRUE
           m == MaxOf(S \ {x})
       IN IF x > m THEN x ELSE m

MaxRemaining(lims, t) == MaxOf({getRemainingTime(lims[k], t) : k \in DOMAIN lims})

\* C11: the wait a denied Try returns (the value of getMinWaitTime) is the
\* largest of the windows' remaining times; with two saturated windows of
\* different remaining times it is the larger one.
C11_MinWaitIsMaximum ==
  \A i \in Done("Try") :
    ~log[i].ok => log[i].wait = MaxRemaining(log[i].after, log[i].at)

\* ---------------------------------------------------------------- C12
\* The step is caller p's allowAndIncrement, made under the mutex.
ConsumeStep(p) ==
  /\ pc[p] \in {"Try", "Wait", "WaitRetry"}
  /\ pc'[p] # pc[p]

\* The step is caller p's allowAndIncrement, and it is granted.
GrantedStep(p) ==
  /\ ConsumeStep(p)
  /\ pc'[p] = "idle" /\ ret'.to = p /\ ret'.ok

\* C12: whatever the interleaving of the callers, a Try or Wait either is
\* granted and increments the count of every window by exactly one (from 0
\* for a window it resets), or increments no count: every step that consumes
\* is a single step made by the holder of the mutex, so no state in which some
\* windows have been incremented and others not is ever seen.
C12_NoPartialConsumption ==
  [][\A p \in Callers : ConsumeStep(p) =>
       /\ mu = p
       /\ IF GrantedStep(p)
          THEN \A k \in DOMAIN limits :
                 \/ limits'[k].count = limits[k].count + 1
                 \/ Due(limits[k], now') /\ limits'[k].count = 1
          ELSE NoIncrement]_vars

\* A Wait has just been granted on a limiter with two windows, one of which it
\* reset and one of which it found part full, while the other caller is
\* suspended in a call of its own.
C12_Witness ==
  /\ ret.op = "Wait" /\ ret.ok /\ ret.to \in Callers
  /\ \E j, k \in DOMAIN limits :
       /\ limits[j].lastReset = now /\ now > 0 /\ limits[j].count = 1
       /\ limits[k].lastReset < now /\ limits[k].count = 2
  /\ \E q \in Callers \ {ret.to} : pc[q] \in Selects

\* ---------------------------------------------------------------- C13
\* C13: in every reachable state, whatever the interleaving of Try, Wait and
\* WaitEvenly calls and cancellations, every window has 0 <= count <= limit.
C13_CountBound ==
  \A k \in DOMAIN limits : 0 <= limits[k].count /\ limits[k].count <= limits[k].limit

\* Both windows of a limiter are full, one of capacity 2, while one caller
\* waits for a slot it reserved with its token cancelled and the other is
\* suspended in Wait.
C13_Witness ==
  /\ Cardinality(DOMAIN limits) = 2
  /\ \A k \in DOMAIN limits : limits[k].count = limits[k].limit
  /\ \E k \in DOMAIN limits : limits[k].limit = 2
  /\ \E p, q \in Callers :
       /\ pc[p] = "EvenSlotSelect" /\ ctxDone[p]
       /\ pc[q] = "WaitSelect"

\* ---------------------------------------------------------------- C14
\* C14: a caller suspended in a select of Wait or WaitEvenly (on its timer or
\* on its token) never holds the mutex; so while the other callers are
\* suspended or idle the mutex is free, which is all an idle caller's Try
\* needs to take it (the guard of TryCall), and a Try that has taken it holds
\* it until it returns (the guard of TryBody), whoever sleeps.
C14_NoLockWhileSuspended ==
  /\ \A p \in Callers : pc[p] \in Selects => mu # p
  /\ \A q \in Callers :
       (pc[q] = "idle" /\ \A p \in Callers \ {q} : pc[p] \in Selects \cup {"idle"})
         => mu = NoOne
  /\ \A q \in Callers : pc[q] = "Try" => mu = q

\* A Try has just completed while the other caller sleeps in a select, its
\* timer not yet due.
C14_Witness ==
  /\ ret.op = "Try" /\ ret.to \in Callers
  /\ \E p \in Callers \ {ret.to} : Asleep(p)

\* ---------------------------------------------------------------- C15
\* Reservations i and j of the log are on the same window in the same
\* interval of it (the window's lastReset is the same), i made before j.
SameInterval(i, j) ==
  /\ i < j
  /\ log[i].key = log[j].key
  /\ log[i].start = log[j].start

\* C15 as stated: of two reservations made by concurrent WaitEvenly calls on
\* the same window in the same interval, the one made first has the strictly
\* smaller slot index and the strictly earlier slot time.
C15_SlotsStrictlyOrdered ==
  \A i, j \in 1..Len(log) :
    SameInterval(i, j) =>
      /\ log[i].idx < log[j].idx
      /\ log[i].slot < log[j].slot

\* C15 amended: the one made first has the strictly smaller slot index (so no
\* two reserve the same slot) and a slot time that is not later; it is
\* strictly earlier when the window's timeBetween (interval / limit, rounded
\* down) is positive, and the same when timeBetween is 0.
C15_SlotsOrdered ==
  \A i, j \in 1..Len(log) :
    SameInterval(i, j) =>
      /\ log[i].idx < log[j].idx
      /\ IF limits[log[i].key].timeBetween > 0
         THEN log[i].slot < log[j].slot
         ELSE log[i].slot = log[j].slot

\* Two callers hold slots of the same interval of a window with a positive
\* timeBetween, the second still waiting for its slot's time.
C15_Witness ==
  \E i, j \in 1..Len(log) :
    /\ SameInterval(i, j)
    /\ log[i].who # log[j].who
    /\ limits[log[i].key].timeBetween > 0
    /\ log[j].res = "waiting" /\ pc[log[j].who] = "EvenSlotSelect"
    /\ log[j].start > 0

\* ---------------------------------------------------------------- C16
\* The step is a step of caller p's WaitEvenly call.
EvenStep(p) ==
  /\ pc[p] \in {"WaitEvenly", "EvenSlotSelect", "EvenResetSelect"}
  /\ pc'[p] # pc[p]

\* C16: a step of WaitEvenly(k) leaves every window other than k as it is,
\* and what its pass under the mutex does is determined by window k and the
\* clock alone, whatever the other windows hold: with room in k (after its
\* lazy reset) it takes one permit of k and returns or waits for the slot's
\* time, and with k full it takes nothing and waits for k's reset.
C16_OnlyNamedWindow ==
  [][\A p \in Callers : EvenStep(p) =>
       /\ \A j \in DOMAIN limits \ {key[p]} : limits'[j] = limits[j]
       /\ (pc[p] = "WaitEvenly" /\ key[p] \in DOMAIN limits) =>
            LET l == limits[key[p]]
                r == IF Due(l, now) THEN LazyReset(l, now) ELSE l
            IN IF r.count < r.limit
               THEN /\ limits'[key[p]] = [r EXCEPT !.count = r.count + 1]
                    /\ IF r.lastReset + r.timeBetween * r.count <= now
                       THEN pc'[p] = "idle" /\ ret'.to = p /\ ret'.ok
                       ELSE pc'[p] = "EvenSlotSelect"
               ELSE /\ limits'[key[p]] = r
                    /\ pc'[p] = "EvenResetSelect"]_vars

\* A caller waits for a slot it reserved in one window while the other window
\* is saturated and the other caller is suspended in Wait on it.
C16_Witness ==
  \E p, q \in Callers : \E j, k \in DOMAIN limits :
    /\ j # k
    /\ pc[p] = "EvenSlotSelect" /\ key[p] = k /\ now < timer[p]
    /\ Saturated(limits[j], now)
    /\ pc[q] = "WaitSelect"

\* ---------------------------------------------------------------- C17
\* Some caller is in the part of Try, Wait or WaitEvenly that runs under the
\* mutex.
Accessing ==
  \E p \in Callers : mu = p /\ pc[p] \in {"Try", "Wait", "WaitRetry", "WaitEvenly"}

\* C17 as stated: a window's count goes down, or its lastReset changes, only
\* in a step of an access made at a time t with t - lastReset >= interval, and
\* that step sets lastReset to that time t; a step that is no access, the
\* passing of time included, changes no window.
C17_ResetAtOneTime ==
  [][/\ \A k \in DOMAIN limits :
          ( \/ limits'[k].lastReset # limits[k].lastReset
            \/ limits'[k].count < limits[k].count )
          => /\ Accessing
             /\ \E t \in now..now' :
                  Due(limits[k], t) /\ limits'[k].lastReset = t
             /\ limits'[k].count \in {0, 1}
     /\ ~Accessing => limits' = limits]_vars

\* C17 amended: a window's count goes down, or its lastReset changes, only in
\* a step of an access (a pass of Try, Wait or WaitEvenly under the mutex)
\* that reads the clock when now - lastReset >= interval; that step sets
\* lastReset to a reading of the clock it made, which in checkLimit is the
\* one before the reading it tests and so may be a time at which the interval
\* had not yet elapsed, and the count to 0 (1 if the access also consumes);
\* and a step that is no access, the passing of time included, changes no
\* window.
C17_LazyReset ==
  [][/\ \A k \in DOMAIN limits :
          ( \/ limits'[k].lastReset # limits[k].lastReset
            \/ limits'[k].count < limits[k].count )
          => /\ Accessing
             /\ Due(limits[k], now')
             /\ limits'[k].lastReset \in now..now'
             /\ limits'[k].count \in {0, 1}
     /\ ~Accessing => limits' = limits]_vars

\* A WaitEvenly has just reset a window and taken its first slot, while the
\* other window, full and with its interval over, still stands as it was.
C17_Witness ==
  /\ ret.op = "WaitEvenly" /\ ret.ok
  /\ \E j, k \in DOMAIN limits :
       /\ limits[k].lastReset = now /\ now > 0 /\ limits[k].count = 1
       /\ Due(limits[j], now) /\ limits[j].count = limits[j].limit

\* ---------------------------------------------------------------- C18
\* C18: a Wait of a sole caller whose token is never cancelled, called in any
\* state its earlier calls have led to, eventually returns success, and it
\* sleeps at most as many times as the limiter has windows.
C18_WaitTerminates ==
  /\ [](Len(log) <= Cardinality(DOMAIN limits))
  /\ (pc[Solo] = "Wait") ~> (ret.to = Solo /\ ret.op = "Wait" /\ ret.ok)

\* A Wait on a limiter with two windows has just returned success after two
\* sleeps.
C18_Witness ==
  /\ ret.to = Solo /\ ret.op = "Wait" /\ ret.ok
  /\ Cardinality(DOMAIN limits) = 2
  /\ Len(log) = 2

\* ---------------------------------------------------------------- C19
\* The largest interval among the windows.
LargestInterval == MaxOf({limits[k].interval : k \in DOMAIN limits})

\* C19 as stated: whenever Try returns false, the wait it returns is positive
\* and not larger than the largest interval among the windows.
C19_RetryAfterPositive ==
  (ret.op = "Try" /\ ~ret.ok) => (0 < ret.wait /\ ret.wait <= LargestInterval)

\* C19 amended: whenever Try returns false, the wait it returns is not
\* negative and not larger than the largest interval among the windows; it is
\* 0 only if, by the time Try returns, no window is both at capacity and short
\* of its reset time (the window that refused came due between the reading of
\* the clock in checkLimit and the one in getRemainingTime); and when it is
\* positive, some window at capacity comes due no later than that wait after
\* the return.
C19_RetryAfterRange ==
  (ret.op = "Try" /\ ~ret.ok) =>
    /\ 0 <= ret.wait /\ ret.wait <= LargestInterval
    /\ ret.wait = 0 => \A k \in DOMAIN limits : ~Saturated(limits[k], now)
    /\ ret.wait > 0 =>
         \E k \in DOMAIN limits :
           /\ limits[k].count >= limits[k].limit
           /\ limits[k].lastReset + limits[k].interval <= now + ret.wait

\* A Try has just been denied by the slower of two windows, the other having
\* room, and returned the whole of the largest interval; the other caller is
\* in a call of its own.
C19_Witness ==
  /\ ret.op = "Try" /\ ~ret.ok /\ ret.wait = LargestInterval
  /\ \E j, k \in DOMAIN limits :
       /\ limits[j].interval < limits[k].interval
       /\ limits[j].count < limits[j].limit
  /\ \E q \in Callers : pc[q] \in Selects

====
